---- MODULE Spec2Model ----
(***************************************************************************)
(* Model of the tool-call orchestration loop of                            *)
(* src/tool_use/function_calling_library.py: ToolManager (the registry)    *)
(* and ConversationHandler (run and _parse_tool_call).                     *)
(*                                                                         *)
(* Text is a sequence of lexical tokens.  A token is a record              *)
(* [k, s, v]: k is the kind, s a label, v a JSON value.                    *)
(*   "F"  a code fence (three backticks)                                   *)
(*   "J"  the tag json                                                     *)
(*   "W"  a run of whitespace                                              *)
(*   "L"  an opening brace, "R" a closing brace                            *)
(*   "M"  one member of a JSON object: the key s with the value v          *)
(*   "X"  any other text, named by s                                       *)
(* A JSON value is a record [t, s, m]: t its type, s the string when it is *)
(* a string, m the members when it is an object (a sequence of             *)
(* <<key, [t, s]>> pairs, in insertion order).                             *)
(***************************************************************************)
EXTENDS Naturals, Sequences, FiniteSets

\* ------------------------------------------------------------------ bounds
MaxLen == 6
MaxRuns == 2
MaxDescribe == 2

\* ------------------------------------------------------------ JSON values
JV(t, s, m) == [t |-> t, s |-> s, m |-> m]
JNull == JV("null", "", <<>>)
JNum == JV("number", "", <<>>)
JList == JV("array", "", <<>>)
JStr(s) == JV("string", s, <<>>)
JObj(m) == JV("object", "", m)
PV(t, s) == [t |-> t, s |-> s]

\* ------------------------------------------------------------------ tokens
Tok(k, s, v) == [k |-> k, s |-> s, v |-> v]
F == Tok("F", "", JNull)
J == Tok("J", "", JNull)
W == Tok("W", "", JNull)
L == Tok("L", "", JNull)
R == Tok("R", "", JNull)
X(s) == Tok("X", s, JNull)
M(key, v) == Tok("M", key, v)

\* A reply's content: a text, or no content at all (None).
Content(text) == [none |-> FALSE, text |-> text]
NoContent == [none |-> TRUE, text |-> <<>>]

\* ------------------------------------------------- helpers on sequences
\* The number of whitespace tokens of text from position i on (greedy \s*).
RECURSIVE SkipWs(_, _)
SkipWs(text, i) ==
  IF i <= Len(text) /\ text[i] = W THEN SkipWs(text, i + 1) ELSE i

\* str.strip(): leading and trailing whitespace removed.
RECURSIVE RStrip(_)
RStrip(text) ==
  IF Len(text) > 0 /\ text[Len(text)] = W
  THEN RStrip(SubSeq(text, 1, Len(text) - 1))
  ELSE text

Strip(text) ==
  LET a == SkipWs(text, 1)
  IN  IF a > Len(text) THEN <<>> ELSE RStrip(SubSeq(text, a, Len(text)))


\* ---------------------------------------------------- _parse_tool_call
\* An optional string: json_str, or the text a reply carries.
None == NoContent

\* The position after the opening of a fenced block at i: the fence, an
\* optional json tag, then whitespace.
BodyStart(text, i) ==
  SkipWs(text, IF i + 1 <= Len(text) /\ text[i + 1] = J THEN i + 2 ELSE i + 1)

\* A closing brace at q that whitespace and a fence follow.
Closes(text, q) ==
  /\ q <= Len(text)
  /\ text[q] = R
  /\ LET e == SkipWs(text, q + 1) IN e <= Len(text) /\ text[e] = F

\* The non-greedy .*? : the first closing position at or after q, or 0.
RECURSIVE FirstClose(_, _)
FirstClose(text, q) ==
  IF q > Len(text) THEN 0
  ELSE IF Closes(text, q) THEN q
  ELSE FirstClose(text, q + 1)

\* The match of the pattern anchored at i: <<p, q>>, the span of group 1,
\* or <<0, 0>>.
MatchAt(text, i) ==
  IF text[i] # F THEN <<0, 0>>
  ELSE LET p == BodyStart(text, i)
       IN  IF p <= Len(text) /\ text[p] = L
           THEN LET q == FirstClose(text, p + 1)
                IN  IF q = 0 THEN <<0, 0>> ELSE <<p, q>>
           ELSE <<0, 0>>

\* re.search: the match at the leftmost position that has one.
RECURSIVE ReSearch(_, _)
ReSearch(text, i) ==
  IF i > Len(text) THEN <<0, 0>>
  ELSE IF MatchAt(text, i) # <<0, 0>> THEN MatchAt(text, i)
  ELSE ReSearch(text, i + 1)

StartsWithBrace(text) == Len(text) > 0 /\ text[1] = L

\* ExtractJsonStr with the two tests in the other order.
ExtractJsonStrBraceFirst(text) ==
  LET match == ReSearch(text, 1)
  IN  IF StartsWithBrace(Strip(text)) THEN Content(text)
      ELSE IF match # <<0, 0>> THEN Content(SubSeq(text, match[1], match[2]))
      ELSE None

\* Lines 196-203: the payload json_str.
ExtractJsonStr(text) ==
  LET match == ReSearch(text, 1)
  IN  IF match # <<0, 0>> THEN Content(SubSeq(text, match[1], match[2]))
      ELSE IF StartsWithBrace(Strip(text)) THEN Content(text)
      ELSE None

\* dict[key] = value on an ordered dict held as a sequence of members.
RECURSIVE DictSet(_, _)
DictSet(d, mem) ==
  IF d = <<>> THEN <<mem>>
  ELSE IF d[1].s = mem.s THEN <<mem>> \o Tail(d)
  ELSE <<d[1]>> \o DictSet(Tail(d), mem)

RECURSIVE DictOf(_)
DictOf(toks) ==
  IF toks = <<>> THEN <<>>
  ELSE LET last == toks[Len(toks)]
           rest == DictOf(SubSeq(toks, 1, Len(toks) - 1))
       IN  IF last.k = "M" THEN DictSet(rest, last) ELSE rest

HasKey(d, key) == \E i \in 1..Len(d) : d[i].s = key
DictGet(d, key, default) ==
  IF HasKey(d, key) THEN d[CHOOSE i \in 1..Len(d) : d[i].s = key].v ELSE default

\* json.loads of a text: [ok, obj]; ok is FALSE on a JSONDecodeError.  A text
\* decodes when it is one object: a brace, members and whitespace, a brace.
IsJsonObject(text) ==
  /\ Len(text) >= 2
  /\ text[1] = L
  /\ text[Len(text)] = R
  /\ \A i \in 2..(Len(text) - 1) : text[i].k \in {"M", "W"}

JsonLoads(text) ==
  IF IsJsonObject(text)
  THEN [ok |-> TRUE, obj |-> DictOf(SubSeq(text, 2, Len(text) - 1))]
  ELSE [ok |-> FALSE, obj |-> <<>>]

\* json.dumps(obj, indent=4) of a dict.
RECURSIVE DumpMembers(_)
DumpMembers(d) ==
  IF d = <<>> THEN <<>> ELSE <<W, d[1]>> \o DumpMembers(Tail(d))

JsonDumpsIndent(d) ==
  IF d = <<>> THEN <<L, R>> ELSE <<L>> \o DumpMembers(d) \o <<W, R>>

\* json.dumps(obj) of a dict, on one line.
JsonDumps(d) == <<L>> \o d \o <<R>>

\* The result of _parse_tool_call: the dict or None; err tells that a
\* JSONDecodeError was caught and printed; exc names an exception that leaves
\* the method, or is "none".
Parsed(obj) == [none |-> FALSE, obj |-> obj, err |-> FALSE, exc |-> "none"]
NoCall == [none |-> TRUE, obj |-> <<>>, err |-> FALSE, exc |-> "none"]
DecodeFailed == [none |-> TRUE, obj |-> <<>>, err |-> TRUE, exc |-> "none"]
ParseRaised(e) == [none |-> TRUE, obj |-> <<>>, err |-> FALSE, exc |-> e]

\* DecodePayload without the except clause: the JSONDecodeError leaves.
DecodePayloadUncaught(json_str) ==
  IF ~json_str.none /\ json_str.text # <<>>
  THEN LET loaded == JsonLoads(Strip(json_str.text))
       IN  IF loaded.ok THEN Parsed(loaded.obj)
           ELSE ParseRaised("JSONDecodeError")
  ELSE NoCall

\* Lines 205-213: json.loads of the stripped payload, JSONDecodeError caught.
DecodePayload(json_str) ==
  IF ~json_str.none /\ json_str.text # <<>>
  THEN LET loaded == JsonLoads(Strip(json_str.text))
       IN  IF loaded.ok THEN Parsed(loaded.obj) ELSE DecodeFailed
  ELSE NoCall

\* _parse_tool_call(response_message).  re.search raises TypeError when the
\* content is None.
ParseToolCall(content) ==
  IF content.none THEN ParseRaised("TypeError")
  ELSE DecodePayload(ExtractJsonStr(content.text))

\* ------------------------------------------------------------ the tools
\* The callables the example scripts register, named by module.function.
Callables == {"test2.get_weather", "test1.solve_math_problem"}

\* get_weather is defined twice, with the same signature, docstring and body.
GetWeathers == {"test2.get_weather", "weather_tool.get_weather"}

\* What else a caller may hand to register_tool: the other get_weather, a
\* builtin that inspect.signature has no signature for, and an object that
\* has no __name__.
RegistryCallables ==
  Callables \cup {"weather_tool.get_weather", "builtins.max", "functools.partial"}

\* Line 23: func.__name__ raises AttributeError on an object without one.
HasName(c) == c # "functools.partial"
\* Line 33: inspect.signature(func) raises ValueError on such a builtin.
SignatureRaises(c) == c = "builtins.max"

\* func.__name__
FuncName(c) ==
  IF c \in GetWeathers THEN "get_weather"
  ELSE IF c = "builtins.max" THEN "max"
  ELSE "solve_math_problem"

\* inspect.signature(func): the declared parameters, in order.
Signature(c) ==
  IF c \in GetWeathers
  THEN << [name |-> "city", annotation |-> "str", required |-> TRUE],
          [name |-> "unit", annotation |-> "str", required |-> FALSE] >>
  ELSE << [name |-> "python_code", annotation |-> "str", required |-> TRUE] >>

\* inspect.getdoc(func): the first paragraph and the lines of the Args section.
DocFirst(c) ==
  IF c \in GetWeathers
  THEN "Get the current weather for a given city."
  ELSE "Executes a given string of Python code to solve a math problem and returns the output."

DocArg(c, name) ==
  IF c \in GetWeathers /\ name = "city" THEN "The name of the city."
  ELSE IF c \in GetWeathers /\ name = "unit"
       THEN "The temperature unit, 'celsius' or 'fahrenheit'."
  ELSE IF c = "test1.solve_math_problem" /\ name = "python_code"
       THEN "A string containing the Python code to execute."
  ELSE ""

\* The result of a call: a returned text, or a raised exception of class exc
\* whose message is the text.
Returned(text) == [raised |-> FALSE, exc |-> "", text |-> text]
Raised(exc, msg) == [raised |-> TRUE, exc |-> exc, text |-> <<X(msg)>>]

ParamNames(c) == {Signature(c)[i].name : i \in 1..Len(Signature(c))}
RequiredNames(c) ==
  {Signature(c)[i].name : i \in {j \in 1..Len(Signature(c)) : Signature(c)[j].required}}
Keys(m) == {m[i][1] : i \in 1..Len(m)}
Arg(m, key) == m[CHOOSE i \in 1..Len(m) : m[i][1] = key][2]

\* str.lower() of the city names the model draws from.
Lower(s) ==
  IF s = "Tokyo" THEN "tokyo" ELSE IF s = "Chicago" THEN "chicago" ELSE s

\* GetWeatherBody with the unit of the payload fixed to celsius.
GetWeatherBodyFixedUnit(city, unit) ==
  IF city.t # "string"
  THEN {Raised("AttributeError", "object has no attribute 'lower'")}
  ELSE IF Lower(city.s) = "chicago"
  THEN {Returned(JsonDumps(<< M("city", JStr("Chicago")),
                              M("temperature", JStr("12")),
                              M("unit", JStr("celsius")) >>))}
  ELSE IF Lower(city.s) = "tokyo"
  THEN {Returned(JsonDumps(<< M("city", JStr("Tokyo")),
                              M("temperature", JStr("25")),
                              M("unit", JStr("celsius")) >>))}
  ELSE {Returned(JsonDumps(<< M("error", JStr("City not found")) >>))}

\* The body of get_weather, once its arguments are bound.
GetWeatherBody(city, unit) ==
  IF city.t # "string"
  THEN {Raised("AttributeError", "object has no attribute 'lower'")}
  ELSE IF Lower(city.s) = "chicago"
  THEN {Returned(JsonDumps(<< M("city", JStr("Chicago")),
                              M("temperature", JStr("12")),
                              M("unit", JV(unit.t, unit.s, <<>>)) >>))}
  ELSE IF Lower(city.s) = "tokyo"
  THEN {Returned(JsonDumps(<< M("city", JStr("Tokyo")),
                              M("temperature", JStr("25")),
                              M("unit", JV(unit.t, unit.s, <<>>)) >>))}
  ELSE {Returned(JsonDumps(<< M("error", JStr("City not found")) >>))}

\* The body of solve_math_problem: what the subprocess does decides the text
\* returned; every exception is caught inside.
SolveMathBody(python_code) ==
  IF python_code.t # "string"
  THEN {Returned(<<X("An unexpected error occurred: ")>>)}
  ELSE {Returned(<<X("stdout")>>),
        Returned(<<X("Error executing the Python code:")>>),
        Returned(<<X("An unexpected error occurred: ")>>)}

\* function_to_call(**tool_params): the outcomes of the call.  params is the
\* JSON value of "parameters".
CallTool(c, params) ==
  IF params.t # "object"
  THEN {Raised("TypeError", "argument after ** must be a mapping")}
  ELSE IF ~(Keys(params.m) \subseteq ParamNames(c))
  THEN {Raised("TypeError", "got an unexpected keyword argument")}
  ELSE IF ~(RequiredNames(c) \subseteq Keys(params.m))
  THEN {Raised("TypeError", "missing 1 required positional argument")}
  ELSE IF c \in GetWeathers
  THEN GetWeatherBody(Arg(params.m, "city"),
                      IF "unit" \in Keys(params.m) THEN Arg(params.m, "unit")
                      ELSE PV("string", "celsius"))
  ELSE SolveMathBody(Arg(params.m, "python_code"))

\* --------------------------------------------------------- ToolManager
\* The schema type register_tool derives from an annotation.
ParamType(annotation) ==
  IF annotation = "int" THEN "integer"
  ELSE IF annotation = "float" THEN "number"
  ELSE IF annotation = "bool" THEN "boolean"
  ELSE "string"

SchemaParameters(c) ==
  [i \in 1..Len(Signature(c)) |->
     <<Signature(c)[i].name,
       PV(ParamType(Signature(c)[i].annotation), DocArg(c, Signature(c)[i].name))>>]

\* The entry register_tool stores in tools_schema.
SchemaOf(c) ==
  [tool_name |-> FuncName(c), description |-> DocFirst(c),
   parameters |-> SchemaParameters(c)]

\* SchemaSet as an append to a list: an entry of the same name stays.
SchemaSetAppend(schema, entry) == Append(schema, entry)

\* tools_schema[tool_name] = entry on the ordered dict tools_schema.
RECURSIVE SchemaSet(_, _)
SchemaSet(schema, entry) ==
  IF schema = <<>> THEN <<entry>>
  ELSE IF schema[1].tool_name = entry.tool_name THEN <<entry>> \o Tail(schema)
  ELSE <<schema[1]>> \o SchemaSet(Tail(schema), entry)

\* json.dumps(list(tools_schema.values()), indent=4)
RECURSIVE DumpSchemas(_)
DumpSchemas(schema) ==
  IF schema = <<>> THEN <<>>
  ELSE << W, L,
          W, M("tool_name", JStr(schema[1].tool_name)),
          W, M("description", JStr(schema[1].description)),
          W, M("parameters", JV("array", "", schema[1].parameters)),
          W, R >> \o DumpSchemas(Tail(schema))

GetToolsForPrompt(schema) ==
  IF schema = <<>> THEN <<X("No tools available.")>>
  ELSE <<X("[")>> \o DumpSchemas(schema) \o <<W, X("]")>>

\* -------------------------------------------------- ConversationHandler
DefaultTemperature == 1
FinalTemperature == 7

\* Sampling temperatures in tenths: the constructor's argument.
Temperatures == {DefaultTemperature, 9}

UserPrompts == {"What's the weather like in Tokyo in celsius?",
                "What is the capital of France?"}

Msg(role, content) == [role |-> role, content |-> content]

\* _create_system_prompt
CreateSystemPrompt(schema) ==
  <<X("You are a helpful assistant with access to the following tools.")>>
    \o GetToolsForPrompt(schema)
    \o <<X("If you don't need a tool, answer the user's question directly.")>>

FinalInstruction ==
  <<X("Based on the result from the tool, please formulate a final answer to the original user question.")>>

\* What print() writes: a log line, or the final answer.
Log(s) == [kind |-> "log", text |-> <<X(s)>>]
Answer(text) == [kind |-> "answer", text |-> text]
WhenVerbose(v, lines) == IF v THEN lines ELSE <<>>

\* str(x) of a reply content or a tool response.
PyStr(content) == IF content.none THEN <<X("None")>> ELSE content.text

\* The JSON values a reply gives "tool_name" and "parameters".
NameValues ==
  {JStr("get_weather"), JStr("solve_math_problem"), JStr("no_such_tool"),
   JNum, JNull, JList, JObj(<<>>)}

ParamValues ==
  {JObj(<<>>),
   JObj(<< <<"city", PV("string", "Tokyo")>> >>),
   JObj(<< <<"city", PV("string", "Tokyo")>>, <<"unit", PV("string", "fahrenheit")>> >>),
   JObj(<< <<"city", PV("string", "Chicago")>>, <<"unit", PV("string", "fahrenheit")>> >>),
   JObj(<< <<"city", PV("string", "Paris")>> >>),
   JObj(<< <<"city", PV("number", "")>> >>),
   JObj(<< <<"location", PV("string", "Tokyo")>> >>),
   JObj(<< <<"python_code", PV("string", "print(1)")>> >>),
   JList, JStr("Tokyo"), JNull}

NameMembers == {<<>>} \cup {<<M("tool_name", v)>> : v \in NameValues}
ParamMembers == {<<>>} \cup {<<M("parameters", p)>> : p \in ParamValues}

\* Brace-delimited payloads: objects, and two that do not decode.
JsonBodies ==
  {<<L>> \o n \o p \o <<R>> : n \in NameMembers, p \in ParamMembers}
    \cup {<<L, X("oops"), R>>,
          <<L, M("tool_name", JStr("get_weather")), X(",")>>}

\* The texts the endpoint replies with in the first exchange.
ReplyTexts ==
  JsonBodies
    \cup {<<F, J, W>> \o b \o <<W, F>> : b \in JsonBodies}
    \cup {<<X("Sure."), W, F, W>> \o b \o <<F>> : b \in JsonBodies}
    \cup {<<X("The answer is 4.")>>,
          <<W, L, M("tool_name", JStr("get_weather")), R, W>>,
          <<L, M("tool_name", JStr("get_weather")), R, W, F, L, X("oops"), R, F>>,
          <<F, X("python"), W, L, M("tool_name", JStr("get_weather")), R, F>>}

Replies == {Content(t) : t \in ReplyTexts} \cup {NoContent}

\* The replies of the second exchange.
FinalReplies ==
  {Content(<<X("It is 25 degrees in Tokyo.")>>),
   Content(<<L, M("tool_name", JStr("get_weather")),
             M("parameters", JObj(<< <<"city", PV("string", "Chicago")>> >>)), R>>),
   NoContent}

\* What the endpoint did with a request: a reply, or a failure.
Reply(content) == [failed |-> FALSE, content |-> content]
Failure == [failed |-> TRUE, content |-> NoContent]

VARIABLES
  available_tools,    \* ToolManager.available_tools: name -> callable
  tools_schema,       \* ToolManager.tools_schema: the entries, in insertion order
  temperature,        \* ConversationHandler.temperature
  pc,                 \* where run() is: idle, call1, tool, call2, done, failed
  verbose,            \* run's argument
  messages,           \* run's local messages
  requests,           \* the requests run() has sent to the endpoint
  exchanges,          \* what the endpoint did with each request
  response_message,   \* the first reply's content
  json_str,           \* the payload _parse_tool_call extracts
  tool_call,          \* the result of _parse_tool_call
  invoked,            \* the tool invocations run() has made
  outcomes,           \* what each invoked callable did
  function_response,  \* the tool's response, or the error text
  out,                \* what run() has printed
  raised,             \* the exception that left the last call, or "none"
  user_prompt,        \* run's argument
  registered,         \* the names whose register_tool call has returned
  described,          \* get_tools_for_prompt calls since the last register_tool
  runs                \* the number of run() calls made

vars == <<available_tools, tools_schema, temperature, pc, verbose, messages,
          requests, exchanges, response_message, json_str, tool_call, invoked,
          outcomes, function_response, out, raised, user_prompt, registered,
          described, runs>>

registry == <<available_tools, tools_schema>>
handler == <<available_tools, tools_schema, temperature>>
\* What an observer of the two objects has counted.
observed == <<registered, described, runs>>

\* No get_tools_for_prompt call is on record.
NotDescribed == [calls |-> 0, text |-> <<>>]

\* The locals of run() and what the environment saw of it.
Cleared ==
  /\ verbose = TRUE
  /\ messages = <<>>
  /\ requests = <<>>
  /\ exchanges = <<>>
  /\ response_message = None
  /\ json_str = None
  /\ tool_call = NoCall
  /\ invoked = <<>>
  /\ outcomes = <<>>
  /\ function_response = None
  /\ out = <<>>
  /\ raised = "none"
  /\ user_prompt = ""

Init ==
  /\ available_tools = <<>>
  /\ tools_schema = <<>>
  /\ temperature \in Temperatures
  /\ pc = "idle"
  /\ registered = {}
  /\ described = NotDescribed
  /\ runs = 0
  /\ Cleared

\* ToolManager.register_tool(func).  Line 23 may raise before anything is
\* stored; line 24 stores the callable; line 33 may raise before the schema
\* entry is stored at line 62.
RegisterTool(c) ==
  /\ pc = "idle"
  /\ IF ~HasName(c)
     THEN /\ raised' = "AttributeError"
          /\ UNCHANGED <<available_tools, tools_schema, registered>>
     ELSE /\ available_tools' =
               [n \in DOMAIN available_tools \cup {FuncName(c)} |->
                  IF n = FuncName(c) THEN c ELSE available_tools[n]]
          /\ IF SignatureRaises(c)
             THEN /\ raised' = "ValueError"
                  /\ UNCHANGED <<tools_schema, registered>>
             ELSE /\ tools_schema' = SchemaSet(tools_schema, SchemaOf(c))
                  /\ registered' = registered \cup {FuncName(c)}
                  /\ raised' = "none"
  /\ described' = NotDescribed
  /\ UNCHANGED <<temperature, pc, verbose, messages, requests, exchanges,
                 response_message, json_str, tool_call, invoked, outcomes,
                 function_response, out, user_prompt, runs>>

\* SchemaAfterDescribe with the entries consumed while they are dumped.
SchemaAfterDescribeDrained(schema) == <<>>

\* Lines 75-77 only read tools_schema: what it holds after the call.
SchemaAfterDescribe(schema) == schema

\* A call of ToolManager.get_tools_for_prompt(); its output is recorded.
Describe ==
  /\ pc = "idle"
  /\ described.calls < MaxDescribe
  /\ described' = [calls |-> described.calls + 1,
                   text |-> GetToolsForPrompt(tools_schema)]
  /\ tools_schema' = SchemaAfterDescribe(tools_schema)
  /\ UNCHANGED <<available_tools, temperature, pc, verbose, messages, requests,
                 exchanges, response_message, json_str, tool_call, invoked,
                 outcomes, function_response, out, raised, user_prompt,
                 registered, runs>>

\* Run with the message list kept on the handler: the system and user
\* messages are appended to what the last call left.
RunKeepsHistory(p, v) ==
  /\ pc = "idle"
  /\ runs < MaxRuns
  /\ runs' = runs + 1
  /\ user_prompt' = p
  /\ verbose' = v
  /\ messages' = messages \o << Msg("system", CreateSystemPrompt(tools_schema)),
                                Msg("user", <<X(p)>>) >>
  /\ out' = WhenVerbose(v, <<Log("--- User Question ---"), Log(p)>>)
  /\ requests' = << [messages |-> messages', temperature |-> temperature] >>
  /\ pc' = "call1"
  /\ raised' = "none"
  /\ UNCHANGED <<handler, registered, described, exchanges, response_message,
                 json_str, tool_call, invoked, outcomes, function_response>>

\* run(), lines 120-135: the messages are built and the first request is sent.
Run(p, v) ==
  /\ pc = "idle"
  /\ runs < MaxRuns
  /\ runs' = runs + 1
  /\ user_prompt' = p
  /\ verbose' = v
  /\ messages' = << Msg("system", CreateSystemPrompt(tools_schema)),
                    Msg("user", <<X(p)>>) >>
  /\ out' = WhenVerbose(v, <<Log("--- User Question ---"), Log(p)>>)
  /\ requests' = << [messages |-> messages', temperature |-> temperature] >>
  /\ pc' = "call1"
  /\ raised' = "none"
  /\ UNCHANGED <<handler, registered, described, exchanges, response_message,
                 json_str, tool_call, invoked, outcomes, function_response>>

\* Line 141, left operand: a dict that is not None and not empty.
Truthy(tc) == ~tc.none /\ tc.obj # <<>>

\* tool_call.get("tool_name")
ToolName(tc) == DictGet(tc.obj, "tool_name", JNull)

\* x in available_tools hashes x first: a list or a dict has no hash.
Unhashable(v) == v.t \in {"array", "object"}
MembershipRaises(tc) == Truthy(tc) /\ Unhashable(ToolName(tc))

\* IsToolCall without the membership test: any named tool is looked up.
IsToolCallUnchecked(tc, tools) ==
  /\ Truthy(tc)
  /\ ToolName(tc).t = "string"

\* Line 141: the condition of the tool branch (when the test does not raise).
IsToolCall(tc, tools) ==
  /\ Truthy(tc)
  /\ ToolName(tc).t = "string"
  /\ ToolName(tc).s \in DOMAIN tools

\* Line 151: available_tools[tool_name] raises KeyError for a missing key.
LookupRaises(tc, tools) == ToolName(tc).s \notin DOMAIN tools

\* ToolsAfterLookup with the entry popped from the dict.
ToolsAfterLookupPopped(tc, tools) ==
  IF IsToolCall(tc, tools)
  THEN [n \in DOMAIN tools \ {ToolName(tc).s} |-> tools[n]]
  ELSE tools

\* Lines 141-151 only read available_tools: what it holds afterwards.
ToolsAfterLookup(tc, tools) == tools

\* ToolParams without the default: tool_call.get("parameters")
ToolParamsNoDefault(tc) == DictGet(tc.obj, "parameters", JNull)

\* Line 143: tool_call.get("parameters", {})
ToolParams(tc) == DictGet(tc.obj, "parameters", JObj(<<>>))

\* What _parse_tool_call prints when json.loads fails.
DecodeErrorLog(tc) == IF tc.err THEN <<Log("JSON Decode Error")>> ELSE <<>>

\* Lines 180-184: the reply is printed as the answer.
DirectAnswer(v, content) ==
  WhenVerbose(v, <<Log("--- Assistant Response (No Tool) ---")>>)
    \o <<Answer(PyStr(content))>>

\* run(), lines 136-153 and 180-184: the first reply arrives; the tool call
\* is looked for; either the tool is called or the reply is the answer.
FirstReply(content) ==
  /\ pc = "call1"
  /\ exchanges' = Append(exchanges, Reply(content))
  /\ response_message' = content
  /\ LET tc == ParseToolCall(content)
     IN  /\ tool_call' = tc
         /\ json_str' = IF content.none THEN None
                        ELSE ExtractJsonStr(content.text)
         /\ IF tc.exc # "none"
            THEN /\ raised' = tc.exc
                 /\ pc' = "failed"
                 /\ UNCHANGED <<invoked, out>>
            ELSE IF MembershipRaises(tc)
            THEN /\ raised' = "TypeError"
                 /\ pc' = "failed"
                 /\ out' = out \o DecodeErrorLog(tc)
                 /\ UNCHANGED invoked
            ELSE IF IsToolCall(tc, available_tools)
                    /\ LookupRaises(tc, available_tools)
            THEN /\ raised' = "KeyError"
                 /\ pc' = "failed"
                 /\ out' = out \o DecodeErrorLog(tc)
                               \o WhenVerbose(verbose,
                                    <<Log("--- Tool Call Detected ---"),
                                      Log("Tool:"), Log("Parameters:")>>)
                 /\ UNCHANGED invoked
            ELSE IF IsToolCall(tc, available_tools)
            THEN /\ invoked' = Append(invoked,
                                 [fn |-> available_tools[ToolName(tc).s],
                                  name |-> ToolName(tc).s,
                                  params |-> ToolParams(tc)])
                 /\ out' = out \o DecodeErrorLog(tc)
                               \o WhenVerbose(verbose,
                                    <<Log("--- Tool Call Detected ---"),
                                      Log("Tool:"), Log("Parameters:")>>)
                 /\ pc' = "tool"
                 /\ UNCHANGED raised
            ELSE /\ out' = out \o DecodeErrorLog(tc)
                               \o DirectAnswer(verbose, content)
                 /\ pc' = "done"
                 /\ UNCHANGED <<invoked, raised>>
         /\ available_tools' = ToolsAfterLookup(tc, available_tools)
  /\ UNCHANGED <<tools_schema, temperature, observed, user_prompt, verbose,
                 messages, requests, outcomes, function_response>>

\* Lines 152-155: the response of the call, or the text of the error caught.
FunctionResponse(o) ==
  IF o.raised THEN Content(<<X("Error executing tool: ")>> \o o.text)
  ELSE Content(o.text)

\* TryCallTool without the except clause: the tool's exception leaves run().
TryCallToolUncaught(o) ==
  IF o.raised THEN [exc |-> o.exc, response |-> None]
  ELSE [exc |-> "none", response |-> Content(o.text)]

\* Lines 152-155: try: function_to_call(**tool_params) except Exception.
\* exc names an exception that leaves the statement, or is "none".
TryCallTool(o) == [exc |-> "none", response |-> FunctionResponse(o)]

\* FollowUp with the tool message put before the assistant message.
FollowUpReordered(msgs, tc, response) ==
  msgs \o << Msg("tool", PyStr(response)),
             Msg("assistant", JsonDumpsIndent(tc.obj)),
             Msg("user", FinalInstruction) >>

\* Lines 162-168: the three messages appended before the second exchange.
FollowUp(msgs, tc, response) ==
  msgs \o << Msg("assistant", JsonDumpsIndent(tc.obj)),
             Msg("tool", PyStr(response)),
             Msg("user", FinalInstruction) >>

\* The temperature of the second request, line 176.
SecondTemperature(t) == FinalTemperature

\* run(), lines 153-177: the tool returns or raises; the three messages are
\* appended and the second request is sent.
ToolCompletes(o) ==
  /\ pc = "tool"
  /\ o \in CallTool(invoked[Len(invoked)].fn, invoked[Len(invoked)].params)
  /\ outcomes' = Append(outcomes, o)
  /\ LET r == TryCallTool(o)
     IN  IF r.exc # "none"
         THEN /\ raised' = r.exc
              /\ pc' = "failed"
              /\ UNCHANGED <<function_response, messages, out, requests>>
         ELSE /\ function_response' = r.response
              /\ messages' = FollowUp(messages, tool_call, r.response)
              /\ out' = out \o WhenVerbose(verbose,
                                 <<Log("--- Tool Response ---"),
                                   [kind |-> "log", text |-> PyStr(r.response)],
                                   Log("--- Final Response from Model ---")>>)
              /\ requests' = Append(requests,
                               [messages |-> messages',
                                temperature |-> SecondTemperature(temperature)])
              /\ pc' = "call2"
              /\ UNCHANGED raised
  /\ UNCHANGED <<handler, observed, user_prompt, verbose, exchanges,
                 response_message, json_str, tool_call, invoked>>

\* SecondReply in a loop: a second reply that is a tool call is acted on.
SecondReplyLoops(content) ==
  /\ pc = "call2"
  /\ exchanges' = Append(exchanges, Reply(content))
  /\ IF IsToolCall(ParseToolCall(content), available_tools)
     THEN /\ invoked' = Append(invoked,
                          [fn |-> available_tools[ToolName(ParseToolCall(content)).s],
                           name |-> ToolName(ParseToolCall(content)).s,
                           params |-> ToolParams(ParseToolCall(content))])
          /\ pc' = "tool"
          /\ UNCHANGED out
     ELSE /\ out' = Append(out, Answer(PyStr(content)))
          /\ pc' = "done"
          /\ UNCHANGED invoked
  /\ UNCHANGED <<handler, observed, user_prompt, verbose, messages, requests,
                 response_message, json_str, tool_call, outcomes,
                 function_response, raised>>

\* SecondReply that starts the conversation over: run() calls itself with the
\* same prompt instead of printing the second reply.
SecondReplyRestarts(content) ==
  /\ pc = "call2"
  /\ pc' = "call1"
  /\ messages' = SubSeq(messages, 1, 2)
  /\ requests' = SubSeq(requests, 1, 1)
  /\ exchanges' = <<>>
  /\ response_message' = None
  /\ json_str' = None
  /\ tool_call' = NoCall
  /\ invoked' = <<>>
  /\ outcomes' = <<>>
  /\ function_response' = None
  /\ out' = SubSeq(out, 1, Len(WhenVerbose(verbose, <<1, 2>>)))
  /\ UNCHANGED <<handler, observed, user_prompt, verbose, raised>>

\* SecondReply printing the answer while the second exchange is still open:
\* the reply is streamed and printed before create() has returned.
SecondReplyStreams(content) ==
  /\ pc = "call2"
  /\ out' = Append(out, Answer(PyStr(content)))
  /\ UNCHANGED <<handler, observed, user_prompt, pc, verbose, messages,
                 requests, exchanges, response_message, json_str, tool_call,
                 invoked, outcomes, function_response, raised>>

\* SecondReply with the final print put under "if verbose".
SecondReplyQuiet(content) ==
  /\ pc = "call2"
  /\ exchanges' = Append(exchanges, Reply(content))
  /\ out' = out \o WhenVerbose(verbose, <<Answer(PyStr(content))>>)
  /\ pc' = "done"
  /\ UNCHANGED <<handler, observed, user_prompt, verbose, messages, requests,
                 response_message, json_str, tool_call, invoked, outcomes,
                 function_response, raised>>

\* run(), lines 178-179: the second reply arrives and is printed.
SecondReply(content) ==
  /\ pc = "call2"
  /\ exchanges' = Append(exchanges, Reply(content))
  /\ out' = Append(out, Answer(PyStr(content)))
  /\ pc' = "done"
  /\ UNCHANGED <<handler, observed, user_prompt, verbose, messages, requests,
                 response_message, json_str, tool_call, invoked, outcomes,
                 function_response, raised>>

\* EndpointFails with a retry: the failed request is sent again.
EndpointFailsRetry ==
  /\ pc \in {"call1", "call2"}
  /\ exchanges' = Append(exchanges, Failure)
  /\ requests' = Append(requests, requests[Len(requests)])
  /\ UNCHANGED <<handler, observed, user_prompt, pc, verbose, messages, response_message, json_str,
                 tool_call, invoked, outcomes, function_response, out, raised>>

\* client.chat.completions.create raises: nothing in run() catches it.
EndpointFails ==
  /\ pc \in {"call1", "call2"}
  /\ exchanges' = Append(exchanges, Failure)
  /\ raised' = "APIConnectionError"
  /\ pc' = "failed"
  /\ UNCHANGED <<handler, observed, user_prompt, verbose, messages, requests, response_message,
                 json_str, tool_call, invoked, outcomes, function_response,
                 out>>

\* run() has returned or raised: its locals are gone.  The list messages
\* named is left as the call built it; line 120 of the next call binds the
\* name to a new list.
Return ==
  /\ pc \in {"done", "failed"}
  /\ pc' = "idle"
  /\ verbose' = TRUE
  /\ requests' = <<>>
  /\ exchanges' = <<>>
  /\ response_message' = None
  /\ json_str' = None
  /\ tool_call' = NoCall
  /\ invoked' = <<>>
  /\ outcomes' = <<>>
  /\ function_response' = None
  /\ out' = <<>>
  /\ raised' = "none"
  /\ user_prompt' = ""
  /\ UNCHANGED <<handler, observed, messages>>

\* Every outcome a registered callable has on the parameters of a reply.
ToolOutcomes ==
  UNION {CallTool(c, p) : c \in Callables, p \in ParamValues}

Next ==
  \/ \E c \in Callables : RegisterTool(c)
  \/ Describe
  \/ \E p \in UserPrompts, v \in BOOLEAN : Run(p, v)
  \/ \E content \in Replies : FirstReply(content)
  \/ \E o \in ToolOutcomes : ToolCompletes(o)
  \/ \E content \in FinalReplies : SecondReply(content)
  \/ EndpointFails
  \/ Return

Spec == Init /\ [][Next]_vars

\* The endpoint and the tool are outside run(): a pending create() call
\* (lines 131, 173) returns or raises, and a pending tool call (line 153)
\* returns or raises.
Respond ==
  \/ \E content \in Replies : FirstReply(content)
  \/ \E o \in ToolOutcomes : ToolCompletes(o)
  \/ \E content \in FinalReplies : SecondReply(content)
  \/ EndpointFails

\* The ToolManager on its own: register_tool with every kind of argument, and
\* get_tools_for_prompt.
NextRegistry ==
  \/ \E c \in RegistryCallables : RegisterTool(c)
  \/ Describe

SpecRegistry == Init /\ [][NextRegistry]_vars

\* Spec where no pending endpoint call or tool call stays pending for ever.
SpecLive == Spec /\ WF_vars(Respond)

\* ------------------------------------------- _parse_tool_call on its own
\* Every text of at most MaxLen tokens is parsed once.
Alphabet == {F, J, W, L, R, X("x")}
Texts == UNION {[1..n -> Alphabet] : n \in 0..MaxLen}

InitParse ==
  /\ available_tools = <<>>
  /\ tools_schema = <<>>
  /\ temperature = DefaultTemperature
  /\ pc = "parse"
  /\ verbose = TRUE
  /\ messages = <<>>
  /\ requests = <<>>
  /\ exchanges = <<>>
  /\ response_message \in {Content(t) : t \in Texts}
  /\ json_str = None
  /\ tool_call = NoCall
  /\ invoked = <<>>
  /\ outcomes = <<>>
  /\ function_response = None
  /\ out = <<>>
  /\ raised = "none"
  /\ user_prompt = ""
  /\ registered = {}
  /\ described = NotDescribed
  /\ runs = 0

\* tool_call = self._parse_tool_call(response_message)
Parse ==
  /\ pc = "parse"
  /\ json_str' = ExtractJsonStr(response_message.text)
  /\ tool_call' = ParseToolCall(response_message)
  /\ out' = out \o DecodeErrorLog(tool_call')
  /\ pc' = "parsed"
  /\ UNCHANGED <<handler, observed, user_prompt, verbose, messages, requests, exchanges,
                 response_message, invoked, outcomes, function_response,
                 raised>>

SpecParse == InitParse /\ [][Parse]_vars

\* ------------------------------------------- weather_tool.run_conversation
\* weather_tool.py, lines 27-29: the module's own available_tools.
WeatherTools == [n \in {"get_weather"} |-> "weather_tool.get_weather"]

\* Lines 62 and 111: the temperatures of the two requests, in tenths.
WtFirstTemperature == 1
WtFinalTemperature == 7

\* Lines 33-49: the system prompt is a literal.
WtSystemPrompt ==
  <<X("You are a helpful assistant with access to the following tools."),
    L, M("tool_name", JStr("get_weather")), R,
    X("If you don't need a tool, answer the user's question directly.")>>

\* Lines 68-78: the payload; the text itself when it starts with a brace
\* (str.startswith on the text as it is).
WtExtractJsonStr(text) ==
  LET match == ReSearch(text, 1)
  IN  IF match # <<0, 0>> THEN Content(SubSeq(text, match[1], match[2]))
      ELSE IF StartsWithBrace(text) THEN Content(text)
      ELSE None

\* Lines 69 and 80-84: tool_call is {} unless the payload decodes; json.loads
\* skips the whitespace around the object.
WtDecodePayload(payload) ==
  IF ~payload.none /\ payload.text # <<>>
  THEN LET loaded == JsonLoads(Strip(payload.text))
       IN  IF loaded.ok THEN Parsed(loaded.obj)
           ELSE [none |-> FALSE, obj |-> <<>>, err |-> TRUE, exc |-> "none"]
  ELSE Parsed(<<>>)

\* Lines 65-84: re.search raises TypeError on a reply without content.
WtParse(content) ==
  IF content.none THEN ParseRaised("TypeError")
  ELSE WtDecodePayload(WtExtractJsonStr(content.text))

\* Line 90: tool_name in available_tools.
WtIsToolCall(tc, tools) ==
  /\ ToolName(tc).t = "string"
  /\ ToolName(tc).s \in DOMAIN tools

\* run_conversation(user_prompt), lines 51-63.
RunConversation(p) ==
  /\ pc = "idle"
  /\ runs < MaxRuns
  /\ runs' = runs + 1
  /\ user_prompt' = p
  /\ messages' = << Msg("system", WtSystemPrompt), Msg("user", <<X(p)>>) >>
  /\ out' = <<Log("--- User Question ---"), Log(p)>>
  /\ requests' = << [messages |-> messages',
                     temperature |-> WtFirstTemperature] >>
  /\ pc' = "call1"
  /\ raised' = "none"
  /\ UNCHANGED <<handler, verbose, registered, described, exchanges,
                 response_message, json_str, tool_call, invoked, outcomes,
                 function_response>>

\* Lines 65-98 and 115-118: the first reply arrives; the tool is called or the
\* reply is printed.  No except clause here catches a TypeError.
WtFirstReply(content) ==
  /\ pc = "call1"
  /\ exchanges' = Append(exchanges, Reply(content))
  /\ response_message' = content
  /\ LET tc == WtParse(content)
     IN  /\ tool_call' = tc
         /\ json_str' = IF content.none THEN None
                        ELSE WtExtractJsonStr(content.text)
         /\ IF tc.exc # "none"
            THEN /\ raised' = tc.exc
                 /\ pc' = "failed"
                 /\ UNCHANGED <<invoked, out>>
            ELSE IF Unhashable(ToolName(tc))
            THEN /\ raised' = "TypeError"
                 /\ pc' = "failed"
                 /\ out' = out \o DecodeErrorLog(tc)
                 /\ UNCHANGED invoked
            ELSE IF WtIsToolCall(tc, available_tools)
            THEN /\ invoked' = Append(invoked,
                                 [fn |-> available_tools[ToolName(tc).s],
                                  name |-> ToolName(tc).s,
                                  params |-> ToolParams(tc)])
                 /\ out' = out \o DecodeErrorLog(tc)
                               \o <<Log("--- Tool Call Detected ---"),
                                    Log("Tool:"), Log("Parameters:")>>
                 /\ pc' = "tool"
                 /\ UNCHANGED raised
            ELSE /\ out' = out \o DecodeErrorLog(tc)
                               \o DirectAnswer(TRUE, content)
                 /\ pc' = "done"
                 /\ UNCHANGED <<invoked, raised>>
  /\ UNCHANGED <<handler, observed, user_prompt, verbose, messages, requests,
                 outcomes, function_response>>

\* Lines 98-112: the tool returns and the second request is sent, or the tool
\* raises and the exception leaves run_conversation (line 120 catches
\* JSONDecodeError only).
WtToolCompletes(o) ==
  /\ pc = "tool"
  /\ o \in CallTool(invoked[Len(invoked)].fn, invoked[Len(invoked)].params)
  /\ outcomes' = Append(outcomes, o)
  /\ IF o.raised
     THEN /\ raised' = o.exc
          /\ pc' = "failed"
          /\ UNCHANGED <<function_response, messages, out, requests>>
     ELSE /\ function_response' = Content(o.text)
          /\ messages' = messages \o << Msg("assistant", response_message.text),
                                        Msg("tool", o.text) >>
          /\ out' = out \o <<Log("--- Tool Response ---"),
                             [kind |-> "log", text |-> o.text],
                             Log("--- Final Response from Model ---")>>
          /\ requests' = Append(requests,
                           [messages |-> messages',
                            temperature |-> WtFinalTemperature])
          /\ pc' = "call2"
          /\ UNCHANGED raised
  /\ UNCHANGED <<handler, observed, user_prompt, verbose, exchanges,
                 response_message, json_str, tool_call, invoked>>

\* Line 113: the second reply is printed.
WtSecondReply(content) ==
  /\ pc = "call2"
  /\ exchanges' = Append(exchanges, Reply(content))
  /\ out' = Append(out, Answer(PyStr(content)))
  /\ pc' = "done"
  /\ UNCHANGED <<handler, observed, user_prompt, verbose, messages, requests,
                 response_message, json_str, tool_call, invoked, outcomes,
                 function_response, raised>>

\* The module as loaded: its registry holds get_weather.
InitWeather ==
  /\ available_tools = WeatherTools
  /\ tools_schema = <<>>
  /\ temperature = WtFirstTemperature
  /\ pc = "idle"
  /\ registered = {}
  /\ described = NotDescribed
  /\ runs = 0
  /\ Cleared

\* Lines 59 and 108: create() raises and nothing catches it (EndpointFails);
\* the call returns or the exception leaves it (Return).
NextWeather ==
  \/ \E p \in UserPrompts : RunConversation(p)
  \/ \E content \in Replies : WtFirstReply(content)
  \/ \E o \in ToolOutcomes : WtToolCompletes(o)
  \/ \E content \in FinalReplies : WtSecondReply(content)
  \/ EndpointFails
  \/ Return

SpecWeather == InitWeather /\ [][NextWeather]_vars

\* --------------------------------------------- ddg_search.call_lm_studio
\* A chat message of the OpenAI wire format; tool_calls is <<>> when the key
\* is absent or the list empty, tool_call_id is "" when absent.
SMsg(role, content, tool_calls, tool_call_id) ==
  [role |-> role, content |-> content, tool_calls |-> tool_calls,
   tool_call_id |-> tool_call_id]

\* Lines 81-86: the one user message.
SearchUserMessage ==
  SMsg("user",
       Content(<<X("Perform a web search to check what is the population of Flagstaff Arizona?")>>),
       <<>>, "")

\* The "arguments" of a tool call: a JSON text, or None.
ArgQuery(v) == Content(<<L, M("query", v), R>>)
SearchArguments ==
  {ArgQuery(JStr("population of Flagstaff Arizona")),
   ArgQuery(JStr("Flagstaff")),
   ArgQuery(JStr("")),
   ArgQuery(JNull),
   Content(<<L, R>>),
   Content(<<L, X("oops")>>),
   Content(<<X("[]")>>),
   NoContent}

\* A tool call of a reply; id and name are "" when the key is absent.
ToolCall(id, name, arguments) ==
  [id |-> id, name |-> name, arguments |-> arguments]
ToolCalls ==
  {ToolCall(id, name, a) :
     id \in {"call_1", ""}, name \in {"ddg-search", "other-tool", ""},
     a \in SearchArguments}
GoodToolCall == ToolCall("call_1", "ddg-search", ArgQuery(JStr("Flagstaff")))

\* The tool_calls lists of the replies: none, one call, two calls.
ToolCallLists ==
  {<<>>} \cup {<<tc>> : tc \in ToolCalls}
    \cup {<<GoodToolCall,
            ToolCall("call_2", "ddg-search", ArgQuery(JStr("population of Flagstaff Arizona")))>>,
          <<ToolCall("call_1", "other-tool", ArgQuery(JStr("Flagstaff"))),
            ToolCall("call_2", "ddg-search", ArgQuery(JStr("Flagstaff")))>>,
          <<ToolCall("call_1", "ddg-search", ArgQuery(JStr(""))),
            ToolCall("call_2", "ddg-search", ArgQuery(JStr("Flagstaff")))>>}

\* response.json(): the choices of a reply, each with its message.
SearchResponses ==
  {<<>>}
    \cup {<<SMsg("assistant", c, tcs, "")>> :
            c \in {NoContent, Content(<<X("About 76,000 people.")>>)},
            tcs \in ToolCallLists}
FinalResponses ==
  {<<>>,
   <<SMsg("assistant", NoContent, <<>>, "")>>,
   <<SMsg("assistant", Content(<<X("Flagstaff has about 76,000 residents.")>>), <<>>, "")>>,
   <<SMsg("assistant", NoContent, <<GoodToolCall>>, "")>>}

\* perform_ddg_search, lines 52-70: it returns the JSON of the answer or the
\* text of an error; it raises nothing.
PerformDdgSearch(query) ==
  {<<L, M("Abstract", JStr(query.s)), R>>,
   <<X("Error performing search for "), X(query.s)>>,
   <<X("Error decoding search results for "), X(query.s)>>}
SearchResults ==
  UNION {PerformDdgSearch(q) :
           q \in {JStr("Flagstaff"), JStr("population of Flagstaff Arizona")}}

\* Line 119: json.loads(function_args_str): a dict, a value that is no dict,
\* or an exception (TypeError when the arguments are not a string).
SearchLoads(arguments) ==
  IF arguments.none THEN [exc |-> "TypeError", dict |-> FALSE, obj |-> <<>>]
  ELSE IF IsJsonObject(Strip(arguments.text))
  THEN [exc |-> "none", dict |-> TRUE,
        obj |-> DictOf(SubSeq(Strip(arguments.text), 2,
                              Len(Strip(arguments.text)) - 1))]
  ELSE IF arguments.text = <<X("[]")>>
  THEN [exc |-> "none", dict |-> FALSE, obj |-> <<>>]
  ELSE [exc |-> "JSONDecodeError", dict |-> FALSE, obj |-> <<>>]

\* Truth value of a query: a string that is not empty (None is false).
QueryTruthy(v) == v.t = "string" /\ v.s # ""

\* ActedToolCall taking the last tool call of the reply.
ActedToolCallLast(tool_calls) == tool_calls[Len(tool_calls)]

\* Line 114: message['tool_calls'][0]
ActedToolCall(tool_calls) == tool_calls[1]

\* What lines 172-174 print when KeyError or IndexError is caught.
ParseErrorLog == <<Log("[ERROR] Failed to parse the response structure.")>>

\* call_lm_studio(), lines 78-100: the first request is sent.
CallLmStudio ==
  /\ pc = "idle"
  /\ runs < MaxRuns
  /\ runs' = runs + 1
  /\ messages' = <<SearchUserMessage>>
  /\ requests' = << [messages |-> messages', tools |-> TRUE] >>
  /\ out' = <<Log("Sending request to LM Studio")>>
  /\ pc' = "call1"
  /\ raised' = "none"
  /\ UNCHANGED <<handler, verbose, user_prompt, registered, described,
                 exchanges, response_message, json_str, tool_call, invoked,
                 outcomes, function_response>>

\* Lines 102-123 and 156-162: the first reply arrives.
SearchFirstReply(choices) ==
  /\ pc = "call1"
  /\ exchanges' = Append(exchanges, [failed |-> FALSE, choices |-> choices])
  /\ IF choices = <<>>
     THEN /\ out' = out \o <<Log("--- Initial Model Response ---")>>
                        \o ParseErrorLog
          /\ pc' = "done"
          /\ UNCHANGED <<messages, tool_call, invoked, raised>>
     ELSE LET message == choices[1]
          IN  /\ messages' = Append(messages, message)
              /\ IF message.tool_calls # <<>>
                 THEN LET tc == ActedToolCall(message.tool_calls)
                          loaded == SearchLoads(tc.arguments)
                          query == DictGet(loaded.obj, "query", JNull)
                          detected == <<Log("--- Initial Model Response ---"),
                                        Log("--- Tool Call Detected! ---")>>
                      IN  /\ tool_call' = tc
                          /\ IF tc.name = ""
                             THEN /\ out' = out \o detected \o ParseErrorLog
                                  /\ pc' = "done"
                                  /\ UNCHANGED <<invoked, raised>>
                             ELSE IF loaded.exc = "JSONDecodeError"
                             THEN /\ out' = out \o detected \o
                                      <<Log("--- Could not decode tool call arguments ---")>>
                                  /\ pc' = "done"
                                  /\ UNCHANGED <<invoked, raised>>
                             ELSE IF loaded.exc # "none"
                             THEN /\ raised' = loaded.exc
                                  /\ out' = out \o detected
                                  /\ pc' = "failed"
                                  /\ UNCHANGED invoked
                             ELSE IF ~loaded.dict
                             THEN /\ raised' = "AttributeError"
                                  /\ out' = out \o detected
                                  /\ pc' = "failed"
                                  /\ UNCHANGED invoked
                             ELSE IF tc.name = "ddg-search" /\ QueryTruthy(query)
                             THEN /\ invoked' = Append(invoked, [query |-> query])
                                  /\ out' = out \o detected
                                  /\ pc' = "tool"
                                  /\ UNCHANGED raised
                             ELSE /\ out' = out \o detected
                                  /\ pc' = "done"
                                  /\ UNCHANGED <<invoked, raised>>
                 ELSE /\ out' = out \o <<Log("--- Initial Model Response ---")>>
                                    \o (IF message.content.none THEN <<>>
                                        ELSE <<Log("--- No Tool Call Detected ---"),
                                               Answer(message.content.text)>>)
                      /\ pc' = "done"
                      /\ UNCHANGED <<tool_call, invoked, raised>>
  /\ UNCHANGED <<handler, observed, user_prompt, verbose, requests,
                 response_message, json_str, outcomes, function_response>>

\* Lines 123-144: the search returns; the tool message is appended and the
\* follow-up request sent.  A tool call without an id raises KeyError at line
\* 128, which line 172 catches.
SearchCompletes(result) ==
  /\ pc = "tool"
  /\ result \in PerformDdgSearch(invoked[Len(invoked)].query)
  /\ outcomes' = Append(outcomes, Returned(result))
  /\ function_response' = Content(result)
  /\ IF tool_call.id = ""
     THEN /\ out' = out \o <<Log("--- Search Result ---")>> \o ParseErrorLog
          /\ pc' = "done"
          /\ UNCHANGED <<messages, requests>>
     ELSE /\ messages' = Append(messages,
                           SMsg("tool", Content(result), <<>>, tool_call.id))
          /\ requests' = Append(requests,
                           [messages |-> messages', tools |-> FALSE])
          /\ out' = out \o <<Log("--- Search Result ---"),
                             Log("--- Sending search result back to the model... ---")>>
          /\ pc' = "call2"
  /\ UNCHANGED <<handler, observed, user_prompt, verbose, exchanges,
                 response_message, json_str, tool_call, invoked, raised>>

\* Lines 146-154: the second reply arrives; its content, if any, is printed.
SearchSecondReply(choices) ==
  /\ pc = "call2"
  /\ exchanges' = Append(exchanges, [failed |-> FALSE, choices |-> choices])
  /\ out' = out \o <<Log("--- Final Model Response ---")>>
                \o (IF choices = <<>> THEN ParseErrorLog
                    ELSE IF choices[1].content.none THEN <<>>
                    ELSE <<Log("--- Final Answer ---"),
                           Answer(choices[1].content.text)>>)
  /\ pc' = "done"
  /\ UNCHANGED <<handler, observed, user_prompt, verbose, messages, requests,
                 response_message, json_str, tool_call, invoked, outcomes,
                 function_response, raised>>

\* Lines 100-101, 144-145 and 164-171: requests.post or raise_for_status
\* raises; the exception is caught and reported.
SearchEndpointFails ==
  /\ pc \in {"call1", "call2"}
  /\ exchanges' = Append(exchanges, [failed |-> TRUE, choices |-> <<>>])
  /\ out' = Append(out, Log("[ERROR]"))
  /\ pc' = "done"
  /\ UNCHANGED <<handler, observed, user_prompt, verbose, messages, requests,
                 response_message, json_str, tool_call, invoked, outcomes,
                 function_response, raised>>

NextSearch ==
  \/ CallLmStudio
  \/ \E choices \in SearchResponses : SearchFirstReply(choices)
  \/ \E result \in SearchResults : SearchCompletes(result)
  \/ \E choices \in FinalResponses : SearchSecondReply(choices)
  \/ SearchEndpointFails
  \/ Return

\* The script has no registry and no handler; Init's empty ones stand in.
SpecSearch == Init /\ [][NextSearch]_vars

\* ---------------------------------------------------------------- claims
IsAnswer(e) == e.kind = "answer"
\* The final answers run() has emitted so far.
Answers == SelectSeq(out, IsAnswer)

FirstReplyReceived == Len(exchanges) >= 1 /\ ~exchanges[1].failed
SecondReplyReceived == Len(exchanges) >= 2 /\ ~exchanges[2].failed
EndpointFailed == \E i \in 1..Len(exchanges) : exchanges[i].failed
RunEnded == pc \in {"done", "failed"}

\* The first reply carries a decoded object whose tool_name is a key of the
\* registry.
NamesRegisteredTool ==
  /\ ~tool_call.none
  /\ HasKey(tool_call.obj, "tool_name")
  /\ ToolName(tool_call).t = "string"
  /\ ToolName(tool_call).s \in DOMAIN available_tools

\* C1: run() fails only if an endpoint call fails: whatever content the first
\* reply has and whatever the tool does, no exception leaves run() while every
\* endpoint call succeeds.
C1_FailsOnlyOnEndpointFailure ==
  (pc = "failed" \/ raised # "none") => EndpointFailed

\* C2: when the first reply has a text and detection yields no valid tool
\* call, the run ends with that text as the one final answer, no tool invoked
\* and one request sent.
C2_NoToolCallMeansDirectAnswer ==
  (RunEnded /\ FirstReplyReceived /\ ~exchanges[1].content.none
     /\ ~NamesRegisteredTool)
    => /\ Answers = <<Answer(exchanges[1].content.text)>>
       /\ invoked = <<>>
       /\ Len(requests) = 1

\* C3: one run invokes at most one tool and sends at most two requests; once
\* the second reply is received the run is done, whatever that reply encodes.
C3_AtMostOneToolTwoRequests ==
  /\ Len(invoked) <= 1
  /\ Len(outcomes) <= 1
  /\ Len(requests) <= 2
  /\ Len(exchanges) <= 2
  /\ SecondReplyReceived =>
       /\ pc = "done"
       /\ tool_call = ParseToolCall(exchanges[1].content)

\* C3 witness: a finished run whose second reply is itself a tool call naming
\* a registered tool.
C3_Witness ==
  /\ pc = "done"
  /\ SecondReplyReceived
  /\ IsToolCall(ParseToolCall(exchanges[2].content), available_tools)
  /\ Len(invoked) = 1

\* C4: when the invoked tool raises, the exception does not leave run(): the
\* error text is the content of the tool message and the second request is
\* sent; the run fails only if that second exchange fails.
C4_ToolErrorBecomesToolResult ==
  \A i \in 1..Len(outcomes) :
    outcomes[i].raised =>
      /\ raised \in {"none", "APIConnectionError"}
      /\ pc \in {"call2", "done", "failed"}
      /\ (pc = "failed") => (Len(exchanges) = 2 /\ exchanges[2].failed)
      /\ Len(requests) = 2
      /\ Len(requests[2].messages) = 5
      /\ requests[2].messages[4] =
           Msg("tool", <<X("Error executing tool: ")>> \o outcomes[i].text)

\* C4 witness: the tool raised and the run went on to its final answer.
C4_Witness ==
  /\ pc = "done"
  /\ Len(outcomes) = 1
  /\ outcomes[1].raised
  /\ Len(Answers) = 1

\* C5: a payload that is extracted but is not JSON gives "no tool call": no
\* exception leaves run(), no tool is invoked and the raw reply text is the
\* final answer.
C5_MalformedJsonIsDirectAnswer ==
  (FirstReplyReceived /\ ~json_str.none /\ ~IsJsonObject(Strip(json_str.text)))
    => /\ pc = "done"
       /\ raised = "none"
       /\ invoked = <<>>
       /\ Len(requests) = 1
       /\ Answers = <<Answer(exchanges[1].content.text)>>

\* C5 witness: a fenced payload that does not decode was the first reply.
C5_Witness ==
  /\ pc = "done"
  /\ FirstReplyReceived
  /\ ~json_str.none
  /\ json_str.text # exchanges[1].content.text
  /\ ~IsJsonObject(Strip(json_str.text))

\* C6: a decoded object whose tool_name is not a key of the registry is
\* treated as "no tool call", and every callable invoked is the registry's
\* entry for the tool_name of the first reply.
C6_UnknownToolIsNoToolCall ==
  /\ (RunEnded /\ FirstReplyReceived /\ ~tool_call.none /\ ~NamesRegisteredTool)
       => /\ pc = "done"
          /\ invoked = <<>>
          /\ Answers = <<Answer(exchanges[1].content.text)>>
  /\ \A i \in 1..Len(invoked) :
       /\ NamesRegisteredTool
       /\ invoked[i].fn = available_tools[ToolName(tool_call).s]

\* C7: a failed endpoint call ends the run as a failure at once: it is the
\* last exchange, no request follows it, no answer is emitted, and when it is
\* the first exchange no tool was invoked.
C7_EndpointFailureIsFatal ==
  /\ Len(requests) <= 2
  /\ \A i \in 1..Len(exchanges) :
       exchanges[i].failed =>
         /\ i = Len(exchanges)
         /\ Len(requests) = i
         /\ pc = "failed"
         /\ raised = "APIConnectionError"
         /\ Answers = <<>>
         /\ (i = 1) => (invoked = <<>>)

\* C7 witness: the second exchange failed after a tool was invoked.
C7_Witness ==
  /\ Len(exchanges) = 2
  /\ exchanges[2].failed
  /\ Len(invoked) = 1

\* C8: the second request carries the two messages of the first request,
\* unchanged, followed by the assistant's tool call, the tool message with
\* the stringified result, and the user instruction, in this order.
C8_MessagesAppendOnly ==
  /\ Len(requests) >= 1 =>
       /\ Len(requests[1].messages) = 2
       /\ requests[1].messages[1].role = "system"
       /\ requests[1].messages[2].role = "user"
       /\ Len(messages) >= 2
       /\ SubSeq(messages, 1, 2) = requests[1].messages
  /\ Len(requests) = 2 =>
       LET m == requests[2].messages
       IN  /\ Len(m) = 5
           /\ SubSeq(m, 1, 2) = requests[1].messages
           /\ m[3].role = "assistant"
           /\ JsonLoads(m[3].content).ok
           /\ JsonLoads(m[3].content).obj = tool_call.obj
           /\ m[4].role = "tool"
           /\ Len(outcomes) = 1
           /\ m[4].content =
                (IF outcomes[1].raised
                 THEN <<X("Error executing tool: ")>> \o outcomes[1].text
                 ELSE outcomes[1].text)
           /\ m[5] = Msg("user", FinalInstruction)

\* C8 witness: the second request was sent after the tool returned a result.
C8_Witness ==
  /\ Len(requests) = 2
  /\ Len(outcomes) = 1
  /\ ~outcomes[1].raised

\* C9: a run that completes has emitted exactly one final answer, verbose or
\* not: the second reply's content when a tool call was acted on, else the
\* first reply's content.
C9_ExactlyOneFinalAnswer ==
  pc = "done" =>
    /\ Len(Answers) = 1
    /\ out[Len(out)] = Answers[1]
    /\ Answers[1].text =
         (IF invoked # <<>> THEN PyStr(exchanges[2].content)
          ELSE PyStr(exchanges[1].content))

\* C9 witness: a quiet run that acted on a tool call is done.
C9_Witness ==
  /\ pc = "done"
  /\ ~verbose
  /\ Len(invoked) = 1
  /\ Len(Answers) = 1

\* A fenced block opens at i and its brace block starts at p: a fence, an
\* optional json tag right after it, whitespace, an opening brace.
IsOpening(text, i, p) ==
  /\ text[i] = F
  /\ i < p
  /\ text[p] = L
  /\ \A k \in (i + 1)..(p - 1) : text[k] = W \/ (k = i + 1 /\ text[k] = J)

\* The brace block ends at q: a closing brace, whitespace, a fence.
IsClosing(text, q) ==
  /\ text[q] = R
  /\ \E e \in (q + 1)..Len(text) :
       text[e] = F /\ \A k \in (q + 1)..(e - 1) : text[k] = W

\* The fenced blocks of a text, each as <<i, q>>: opened at i, closed at q.
FencedBlocks(text) ==
  {b \in (1..Len(text)) \X (1..Len(text)) :
     /\ IsClosing(text, b[2])
     /\ \E p \in (b[1] + 1)..(b[2] - 1) : IsOpening(text, b[1], p)}

\* The first fenced block: the leftmost opening, and its nearest closing.
FirstBlock(text) ==
  CHOOSE b \in FencedBlocks(text) :
    \A c \in FencedBlocks(text) :
      b[1] < c[1] \/ (b[1] = c[1] /\ b[2] <= c[2])

BlockContent(text, b) ==
  SubSeq(text, CHOOSE p \in (b[1] + 1)..(b[2] - 1) : IsOpening(text, b[1], p), b[2])

BeginsWithBrace(text) ==
  \E i \in 1..Len(text) : text[i] = L /\ \A k \in 1..(i - 1) : text[k] = W

\* C10: the payload is the content of the first fenced block when the reply
\* has one, even if the reply begins with a brace; else the entire reply when
\* its trimmed text begins with a brace; else there is no payload and the
\* result is "no tool call".
C10_ExtractionPrecedence ==
  pc = "parsed" =>
    LET text == response_message.text
    IN  IF FencedBlocks(text) # {}
        THEN json_str = Content(BlockContent(text, FirstBlock(text)))
        ELSE IF BeginsWithBrace(text)
        THEN json_str = Content(text)
        ELSE json_str = None /\ tool_call = NoCall

\* C10 witness: a parsed reply that begins with a brace and also holds a
\* fenced block; the payload is the block.
C10_Witness ==
  /\ pc = "parsed"
  /\ BeginsWithBrace(response_message.text)
  /\ FencedBlocks(response_message.text) # {}
  /\ json_str # Content(response_message.text)
  /\ ~json_str.none

\* The entries of a dumped list: the members between a brace and the next
\* closing brace.
EntryStarts(text) == {i \in 1..Len(text) : text[i] = L}
EntryEnd(text, i) ==
  CHOOSE j \in i..Len(text) :
    text[j] = R /\ \A k \in i..(j - 1) : text[k] # R
EntryAt(text, i) == DictOf(SubSeq(text, i + 1, EntryEnd(text, i) - 1))
EntryKeys(d) == {d[i].s : i \in 1..Len(d)}
IsJsonList(text) ==
  /\ Len(text) >= 2
  /\ text[1] = X("[")
  /\ text[Len(text)] = X("]")
  /\ \A i \in EntryStarts(text) : \E j \in i..Len(text) : text[j] = R

\* C11: get_tools_for_prompt() returns the text "No tools available." exactly
\* when no tool is registered; otherwise it returns a JSON list that has one
\* entry for each distinct registered name and no other entry, each entry
\* holding the keys tool_name, description and parameters.
C11_ToolsPromptListsRegistry ==
  described.calls >= 1 =>
    LET text == described.text
    IN  /\ (text = <<X("No tools available.")>>) <=> (registered = {})
        /\ registered # {} =>
             /\ IsJsonList(text)
             /\ Cardinality(EntryStarts(text)) = Cardinality(registered)
             /\ {DictGet(EntryAt(text, i), "tool_name", JNull) :
                   i \in EntryStarts(text)} = {JStr(n) : n \in registered}
             /\ \A i \in EntryStarts(text) :
                  /\ Len(EntryAt(text, i)) = 3
                  /\ EntryKeys(EntryAt(text, i))
                       = {"tool_name", "description", "parameters"}

\* C11 witness: get_tools_for_prompt() was called with two names registered.
C11_Witness ==
  /\ described.calls >= 1
  /\ Cardinality(registered) = 2
  /\ Cardinality(EntryStarts(described.text)) = 2

\* C12: get_tools_for_prompt() changes nothing in the registry, and a call
\* that follows another with no registration in between returns the same text.
C12_DescribeIsIdempotent ==
  [][described'.calls = described.calls + 1 =>
       /\ registry' = registry
       /\ described.calls >= 1 => described'.text = described.text]_vars

\* C12 witness: two calls in a row on a registry that holds a tool.
C12_Witness ==
  /\ described.calls = 2
  /\ registered # {}
  /\ described.text = GetToolsForPrompt(tools_schema)

\* A step of a run() call: from its start to its return.
RunStep == pc # "idle" \/ pc' # "idle"
\* The step in which run() is called.
RunStarts == pc = "idle" /\ pc' = "call1"
\* The tool names a prompt text lists.
ListedNames(text) ==
  {DictGet(EntryAt(text, i), "tool_name", JNull) : i \in EntryStarts(text)}

\* C13: run() only reads the registry: every step of a run, in every branch,
\* leaves available_tools and tools_schema as they were, and the system
\* message of the first request describes exactly the tools registered when
\* run() was called.
C13_RunReadsRegistryOnly ==
  [][/\ RunStep => registry' = registry
     /\ RunStarts =>
          LET system == requests'[1].messages[1]
          IN  /\ system.role = "system"
              /\ system.content = CreateSystemPrompt(tools_schema)
              /\ ListedNames(system.content) = {JStr(n) : n \in registered}
              /\ Cardinality(EntryStarts(system.content))
                   = Cardinality(registered)]_vars

\* C13 witness: a run that invoked a registered tool and got its second reply
\* has ended with both tools still registered.
C13_Witness ==
  /\ pc = "done"
  /\ Len(invoked) = 1
  /\ Len(exchanges) = 2
  /\ DOMAIN available_tools = {"get_weather", "solve_math_problem"}
  /\ Len(tools_schema) = 2

\* C14: the temperature of the second request is strictly higher than the
\* temperature of the first, whatever temperature the handler was built with.
C14_SecondTemperatureHigher ==
  Len(requests) = 2 => requests[2].temperature > requests[1].temperature

\* C15: a first reply that names a registered tool and has no "parameters"
\* key gets the tool invoked with an empty mapping, and the run goes on to
\* the second request with the three follow-up messages, as for any tool call.
C15_MissingParametersIsEmptyMapping ==
  (FirstReplyReceived /\ NamesRegisteredTool
     /\ ~HasKey(tool_call.obj, "parameters")) =>
    /\ Len(invoked) = 1
    /\ invoked[1].name = ToolName(tool_call).s
    /\ invoked[1].fn = available_tools[ToolName(tool_call).s]
    /\ invoked[1].params = JObj(<<>>)
    /\ pc \in {"tool", "call2", "done", "failed"}
    /\ pc # "tool" =>
         /\ Len(outcomes) = 1
         /\ outcomes[1] \in CallTool(invoked[1].fn, JObj(<<>>))
         /\ Len(requests) = 2
         /\ requests[2].messages = FollowUp(requests[1].messages, tool_call,
                                            function_response)
    /\ pc = "failed" => EndpointFailed

\* C15 witness: such a run has received its second reply.
C15_Witness ==
  /\ pc = "done"
  /\ SecondReplyReceived
  /\ NamesRegisteredTool
  /\ ~HasKey(tool_call.obj, "parameters")
  /\ invoked[1].params = JObj(<<>>)

\* The first reply carries a decoded object with a tool_name that is not a
\* key of the registry.
NamesUnregisteredTool ==
  /\ ~tool_call.none
  /\ HasKey(tool_call.obj, "tool_name")
  /\ ~NamesRegisteredTool
\* ... and that tool_name is a string.
NamesUnregisteredString ==
  NamesUnregisteredTool /\ ToolName(tool_call).t = "string"
\* The failures that tell a caller the name was not found.
NotFoundSignals == {"ToolNotFound", "KeyError"}

AsksTokyoWeather ==
  /\ NamesRegisteredTool
  /\ available_tools[ToolName(tool_call).s] = "test2.get_weather"
  /\ ToolParams(tool_call).t = "object"
  /\ "city" \in Keys(ToolParams(tool_call).m)
  /\ Keys(ToolParams(tool_call).m) \subseteq {"city", "unit"}
  /\ Arg(ToolParams(tool_call).m, "city") = PV("string", "Tokyo")
\* The unit the payload must carry: the one supplied, or the default.
ExpectedUnit ==
  IF "unit" \in Keys(ToolParams(tool_call).m)
  THEN LET u == Arg(ToolParams(tool_call).m, "unit") IN JV(u.t, u.s, <<>>)
  ELSE JStr("celsius")
TokyoPayload ==
  <<L, M("city", JStr("Tokyo")), M("temperature", JStr("25")),
       M("unit", ExpectedUnit), R>>

\* C17: get_weather, registered and called through run() with parameters that
\* hold city "Tokyo", returns the payload city Tokyo, temperature 25 and the
\* unit: celsius when the call names no unit, the supplied unit otherwise; the
\* payload is what the tool message of the second request carries.
C17_DefaultUnitApplied ==
  (FirstReplyReceived /\ AsksTokyoWeather /\ Len(outcomes) = 1) =>
    /\ outcomes[1] = Returned(TokyoPayload)
    /\ function_response = Content(TokyoPayload)
    /\ requests[2].messages[4] = Msg("tool", TokyoPayload)

\* C17 witness: the call with only city "Tokyo" has returned.
C17_Witness ==
  /\ FirstReplyReceived
  /\ AsksTokyoWeather
  /\ Keys(ToolParams(tool_call).m) = {"city"}
  /\ Len(outcomes) = 1
  /\ ExpectedUnit = JStr("celsius")

\* A call that supplied the unit fahrenheit has returned.
C17_SuppliedUnitReached ==
  /\ FirstReplyReceived
  /\ AsksTokyoWeather
  /\ ExpectedUnit = JStr("fahrenheit")
  /\ Len(outcomes) = 1

\* The last exchange: the endpoint's reply to the last request.
LastExchange == exchanges[Len(exchanges)]

\* C18: the events of one run() call are totally ordered and do not overlap:
\* at most one request is open at a time; detection and the tool call come
\* after the first reply; no request is open while the tool runs; the second
\* request is sent after the tool has returned or raised; the answer is
\* printed after the reply of the last exchange, and is that reply.
C18_EventsTotallyOrdered ==
  /\ Len(exchanges) <= Len(requests)
  /\ Len(requests) <= Len(exchanges) + 1
  /\ Len(outcomes) <= Len(invoked)
  /\ Len(invoked) <= 1
  /\ ~tool_call.none => FirstReplyReceived
  /\ Len(invoked) >= 1 => FirstReplyReceived
  /\ Len(invoked) > Len(outcomes) =>
       /\ pc = "tool"
       /\ Len(requests) = 1
       /\ Len(exchanges) = 1
  /\ Len(requests) = 2 =>
       /\ FirstReplyReceived
       /\ Len(invoked) = 1
       /\ Len(outcomes) = 1
  /\ Answers # <<>> =>
       /\ pc = "done"
       /\ Len(exchanges) = Len(requests)
       /\ Len(outcomes) = Len(invoked)
       /\ ~LastExchange.failed
       /\ Answers = <<Answer(PyStr(LastExchange.content))>>

\* C18 witness: a run went through every event: two exchanges with a tool
\* call that raised in between, and the answer.
C18_Witness ==
  /\ pc = "done"
  /\ Len(exchanges) = 2
  /\ Len(outcomes) = 1
  /\ outcomes[1].raised
  /\ Len(Answers) = 1

\* C19: no conversation state crosses run() calls: in every call on the
\* handler, the first, second or any later one, the first request holds
\* exactly two messages, the system prompt and the user prompt of that call.
C19_FirstRequestIsFresh ==
  Len(requests) >= 1 =>
    /\ runs >= 1
    /\ requests[1].messages =
         << Msg("system", CreateSystemPrompt(tools_schema)),
            Msg("user", <<X(user_prompt)>>) >>
    /\ \A i \in 1..Len(requests[1].messages) :
         requests[1].messages[i].role \notin {"assistant", "tool"}

\* C19 witness: the second run() call on the handler has sent its first
\* request and has taken the tool branch.
C19_Witness ==
  /\ runs = 2
  /\ pc = "tool"
  /\ Len(requests) = 1

\* The names tools_schema describes.
DescribedNames == {tools_schema[i].tool_name : i \in 1..Len(tools_schema)}

\* C21: after any sequence of register_tool calls, failed ones included, the
\* names that can be invoked are the names that are described, and each
\* described entry is the descriptor of the callable stored under its name.
C21_InvocableEqualsDescribed ==
  /\ DOMAIN available_tools = DescribedNames
  /\ \A i \in 1..Len(tools_schema) :
       /\ tools_schema[i].tool_name \in DOMAIN available_tools
       /\ tools_schema[i] = SchemaOf(available_tools[tools_schema[i].tool_name])

\* The library's registry once test2.py has registered get_weather.
LibraryTools == [n \in {"get_weather"} |-> "test2.get_weather"]

\* What ConversationHandler.run decides on a first reply: it raises, calls
\* the tool, or prints the reply as the answer.
LibraryDecision(content) ==
  LET tc == ParseToolCall(content)
  IN  IF tc.exc # "none" \/ MembershipRaises(tc) THEN "raises"
      ELSE IF IsToolCall(tc, LibraryTools) THEN "tool"
      ELSE "direct"

\* What run_conversation has decided on the first reply it received.
WeatherDecision ==
  IF Len(invoked) >= 1 THEN "tool"
  ELSE IF pc = "failed" THEN "raises"
  ELSE "direct"

\* C22: on the same replies run_conversation and ConversationHandler.run (with
\* get_weather registered) decide the same, call the tool with the same
\* parameters and, whatever the tool does, both go on to the final answer or
\* both fail.
C22_SameAsLibrary ==
  FirstReplyReceived =>
    LET content == exchanges[1].content
    IN  /\ WeatherDecision = LibraryDecision(content)
        /\ Len(invoked) >= 1 =>
             invoked[1].params = ToolParams(ParseToolCall(content))
        /\ Len(outcomes) = 1 =>
             /\ outcomes[1] \in CallTool(LibraryTools["get_weather"],
                                         invoked[1].params)
             /\ (raised # "none") <=> (TryCallTool(outcomes[1]).exc # "none")

\* The message of the first reply and the first tool call it carries.
FirstMessage == exchanges[1].choices[1]
FirstToolCall == FirstMessage.tool_calls[1]
\* The query the arguments of a tool call decode to, or null.
QueryOf(tc) == DictGet(SearchLoads(tc.arguments).obj, "query", JNull)
\* The arguments of a tool call decode to an object with a non-empty query.
HasQuery(tc) ==
  /\ SearchLoads(tc.arguments).exc = "none"
  /\ SearchLoads(tc.arguments).dict
  /\ QueryOf(tc).t = "string"
  /\ QueryOf(tc).s # ""

\* C23: call_lm_studio sends at most two requests; it sends the second only
\* when the first reply has tool calls, the first of them names ddg-search and
\* its arguments decode to a non-empty query; the second request then holds
\* the user message, the assistant's reply and one tool message, in that
\* order, the tool message carrying the id of that first tool call and the
\* result of the one search made, which is the search for its query.
C23_FollowUpOnlyForFirstSearchCall ==
  /\ Len(requests) <= 2
  /\ Len(invoked) <= 1
  /\ Len(invoked) = 1 =>
       /\ FirstReplyReceived
       /\ invoked[1].query = QueryOf(FirstToolCall)
  /\ Len(requests) = 2 =>
       /\ FirstReplyReceived
       /\ exchanges[1].choices # <<>>
       /\ FirstMessage.tool_calls # <<>>
       /\ FirstToolCall.name = "ddg-search"
       /\ HasQuery(FirstToolCall)
       /\ Len(invoked) = 1
       /\ Len(outcomes) = 1
       /\ outcomes[1].text \in PerformDdgSearch(QueryOf(FirstToolCall))
       /\ requests[2].messages =
            << SearchUserMessage,
               FirstMessage,
               SMsg("tool", Content(outcomes[1].text), <<>>, FirstToolCall.id) >>
       /\ requests[2].messages[3].tool_call_id # ""

\* C23 witness: the first reply carried two tool calls and the call has ended
\* after its follow-up request was answered.
C23_Witness ==
  /\ pc = "done"
  /\ Len(requests) = 2
  /\ Len(exchanges) = 2
  /\ ~exchanges[2].failed
  /\ Len(FirstMessage.tool_calls) = 2

\* A run() call is in progress and has not ended.
RunPending == pc \in {"call1", "tool", "call2"}

\* C20: every run() call terminates, with a final answer printed or with an
\* endpoint failure, provided each endpoint call and the tool call it waits
\* for returns or fails.
C20_RunTerminates ==
  RunPending ~> (RunEnded /\ (Answers # <<>> \/ EndpointFailed))

\* Termination alone: under the same proviso every run() call ends, by
\* returning or by raising.
RunAlwaysEnds == RunPending ~> RunEnded

====
